---- MODULE Spec2Model ----
(***************************************************************************)
(* SpendLens frontend: the session store (AuthProvider), its token         *)
(* verifier, the route guard and the top-level view selection.             *)
(*                                                                         *)
(* React state is modelled with automatic batching: all setters called by  *)
(* one handler (or one continuation of an async handler) are committed     *)
(* together, and the useEffect([token]) of AuthProvider runs right after   *)
(* the commit in which token differs from the previously committed token.  *)
(***************************************************************************)
EXTENDS Integers, FiniteSets, Sequences, TLC

\* ---------------------------------------------------------------- bounds
MaxRequests == 2   \* verification requests issued per page load
MaxLoads == 1      \* page loads (AuthProvider constructions) after the first
MaxUploads == 2    \* upload requests sent by one form instance

\* ---------------------------------------------------------------- values
Null == "null"                 \* null / absent
Tokens == {"T1", "T2"}         \* bearer tokens (non-empty strings)
Users == {"U1", "U2"}          \* User objects supplied by the backend
BadJson == "unparsable"        \* a body on which response.json() rejects
Detail == "detail"             \* the body of an error response
Statuses == {200, 201, 401, 404, 500}
Totals == {0, 1, 5}            \* total_transactions values of a summary

\* What the network can answer to a verification request: an HTTP response
\* (2xx with a user payload or with a body that does not parse, or non-2xx),
\* or a rejected fetch (network failure).
Responses ==
    [kind : {"http"}, status : {s \in Statuses : s \in 200..299}, body : Users \cup {BadJson}]
    \cup [kind : {"http"}, status : {s \in Statuses : s \notin 200..299}, body : {Detail}]
    \cup [kind : {"neterr"}, status : {0}, body : {Detail}]

\* What the network can answer to the data-presence probe: a summary with its
\* total_transactions, an error response whose body text does or does not
\* carry the no-data phrasing, or a network failure.
ProbeResponses ==
    [kind : {"http"}, status : {s \in Statuses : s \in 200..299}, total : Totals, noData : {FALSE}]
    \cup [kind : {"http"}, status : {s \in Statuses : s \notin 200..299}, total : {0}, noData : BOOLEAN]
    \cup [kind : {"neterr"}, status : {0}, total : {0}, noData : {FALSE}]

VARIABLES
    storage,    \* localStorage['authToken'] (Null when the key is absent)
    token,      \* AuthProvider state: token
    user,       \* AuthProvider state: user
    isLoading,  \* AuthProvider state: isLoading
    pc,         \* "init": constructed, mount effect not yet run; "mounted"
    inflight,   \* verification requests awaiting their response
    nextId,     \* number of verification requests issued by this page load
    loads,      \* number of reloads so far
    probe,      \* data-presence probe: "idle", "pending" or "done"
    selected,   \* view chosen by the probe or by manual navigation (or Null)
    rendered,   \* what the consumers of the context render in this state
    last,       \* history: the operation that produced the current state
    loggedOut,  \* history: logout() was called and login() has not been since
    \* UploadForm
    form,       \* state of the form: selectedFile, fileType, projectId, isLoading, message
    props,      \* which of the optional callbacks the parent passed
    uploads,    \* upload requests awaiting their response
    upCount,    \* number of upload requests this form instance has sent
    formLast,   \* history: the last form operation, the form before it, what it did
    \* Dashboard
    dash,       \* state of the component: currentMonthSummary, loadingSummary, loadingTrend, error
    dashPc,     \* "init": constructed, effects not yet run; "mounted"
    dashReqs,   \* summary requests awaiting their response
    dashTimers, \* pending timers of the mocked trend fetch
    dashCount,  \* number of summary requests sent
    dashLast,   \* history: the last summary operation (request or response)
    \* getTopItem
    mapping,    \* a mapping of the summary (spending_by_category or revenue_by_client)
    topResult,  \* the top item derived from it
    \* Login form
    loginForm,  \* state of the component: error, isLoading
    loginReqs,  \* token requests awaiting their response
    loginCount, \* number of token requests sent
    loginLast   \* history: the last operation of the login form

authVars == <<storage, token, user, isLoading, pc, inflight, nextId, loads,
              probe, selected, rendered, last, loggedOut>>

formVars == <<form, props, uploads, upCount, formLast>>

dashVars == <<dash, dashPc, dashReqs, dashTimers, dashCount, dashLast>>

topVars == <<mapping, topResult>>

loginVars == <<loginForm, loginReqs, loginCount, loginLast>>

vars == <<authVars, formVars, dashVars, topVars, loginVars>>

\* The part of the state the handlers of AuthProvider read and write.
St == [storage |-> storage, token |-> token, user |-> user,
       isLoading |-> isLoading, inflight |-> inflight, nextId |-> nextId]

NoSession == [storage |-> Null, token |-> Null, user |-> Null]

NoOp(op) == [op |-> op, tok |-> Null, usr |-> Null, status |-> 0, body |-> Null,
             origin |-> Null, total |-> 0, noData |-> FALSE, before |-> NoSession]

\* ------------------------------------------------------------ AuthProvider

\* response.ok
ResponseOk(resp) == resp.kind = "http" /\ resp.status \in 200..299

\* Mutant: the "no token" early return is missing.
verifyTokenAndGetUser_noNullCheck(s, currentToken, origin) ==
    [s EXCEPT !.inflight = @ \cup {[id |-> s.nextId, bearer |-> currentToken, origin |-> origin]},
              !.nextId = @ + 1]

\* Mutant: the loading flag is raised while a verification runs.
verifyTokenAndGetUser_setsLoading(s, currentToken, origin) ==
    IF currentToken = Null
    THEN [s EXCEPT !.isLoading = FALSE]
    ELSE [s EXCEPT !.inflight = @ \cup {[id |-> s.nextId, bearer |-> currentToken, origin |-> origin]},
                   !.nextId = @ + 1, !.isLoading = TRUE]

\* verifyTokenAndGetUser, up to and including the fetch call.
verifyTokenAndGetUser(s, currentToken, origin) ==
    IF currentToken = Null
    THEN [s EXCEPT !.isLoading = FALSE]
    ELSE [s EXCEPT !.inflight = @ \cup {[id |-> s.nextId, bearer |-> currentToken, origin |-> origin]},
                   !.nextId = @ + 1]

\* Mutant: the catch block forgets localStorage.removeItem.
verifyCatch_keepStorage(s) == [s EXCEPT !.token = Null, !.user = Null]

\* catch block of verifyTokenAndGetUser.
verifyCatch(s) == [s EXCEPT !.storage = Null, !.token = Null, !.user = Null]

\* Mutant: the finally block is missing.
verifyFinally_missing(s) == s

\* finally block of verifyTokenAndGetUser.
verifyFinally(s) == [s EXCEPT !.isLoading = FALSE]

\* Mutant: only a 401 drops the session; other failures keep it.
verifyResume_only401(s, resp) ==
    verifyFinally(
        IF resp.kind = "http" /\ resp.status = 401 THEN verifyCatch(s)
        ELSE IF resp.kind = "http" /\ ResponseOk(resp) /\ resp.body # BadJson
             THEN [s EXCEPT !.user = resp.body]
        ELSE s)

\* Mutant: the success path forgets setUser.
verifyResume_noSetUser(s, resp) ==
    verifyFinally(
        IF resp.kind = "neterr" THEN verifyCatch(s)
        ELSE IF ~ResponseOk(resp) THEN verifyCatch(s)
        ELSE IF resp.body = BadJson THEN verifyCatch(s)
        ELSE s)

\* verifyTokenAndGetUser from the point where the awaited fetch settles.
verifyResume(s, resp) ==
    verifyFinally(
        IF resp.kind = "neterr" THEN verifyCatch(s)
        ELSE IF ~ResponseOk(resp) THEN verifyCatch(s)
        ELSE IF resp.body = BadJson THEN verifyCatch(s)
        ELSE [s EXCEPT !.user = resp.body])

\* useEffect(() => verifyTokenAndGetUser(token), [token]) after a commit:
\* runs only when token differs from the previously committed token.
tokenEffect(prevToken, s) ==
    IF s.token # prevToken THEN verifyTokenAndGetUser(s, s.token, "change") ELSE s

\* Mutant: login raises the loading flag for the verification to come.
login_setsLoading(s, userData, authToken) ==
    [s EXCEPT !.storage = authToken, !.token = authToken, !.user = userData, !.isLoading = TRUE]

\* Mutant: login forgets localStorage.setItem.
login_noStorage(s, userData, authToken) ==
    [s EXCEPT !.token = authToken, !.user = userData, !.isLoading = FALSE]

\* Mutant: login stores the token and leaves the user to the verification.
login_noUser(s, userData, authToken) ==
    [s EXCEPT !.storage = authToken, !.token = authToken, !.isLoading = FALSE]

\* login(userData, authToken)
login(s, userData, authToken) ==
    [s EXCEPT !.storage = authToken, !.token = authToken, !.user = userData, !.isLoading = FALSE]

\* Mutant: logout forgets localStorage.removeItem.
logout_keepStorage(s) ==
    [s EXCEPT !.token = Null, !.user = Null, !.isLoading = FALSE]

\* logout()
logout(s) ==
    [s EXCEPT !.storage = Null, !.token = Null, !.user = Null, !.isLoading = FALSE]

\* ------------------------------------------------------------- consumers

\* Mutant: a user is enough for the Dashboard.
AppContent_userOnly(loading, tok, usr) ==
    IF loading THEN "Loading"
    ELSE IF usr # Null THEN "Dashboard"
    ELSE "Login"

\* AppContent: which top-level component is rendered.
AppContent(loading, tok, usr) ==
    IF loading THEN "Loading"
    ELSE IF tok # Null /\ usr # Null THEN "Dashboard"
    ELSE "Login"

\* Mutant: the user check comes before the loading check.
ProtectedRoute_userFirst(loading, usr) ==
    IF usr = Null THEN "NavigateLogin"
    ELSE IF loading THEN "Placeholder"
    ELSE "Outlet"

\* ProtectedRoute: what the route guard renders.
ProtectedRoute(loading, usr) ==
    IF loading THEN "Placeholder"
    ELSE IF usr = Null THEN "NavigateLogin"
    ELSE "Outlet"

\* Mutant: data presence decided by the HTTP status alone.
DataPresence_statusOnly(presp) ==
    IF presp.kind = "http" /\ presp.status \in 200..299 THEN TRUE
    ELSE IF presp.kind = "http" /\ presp.status \in {404, 500} /\ presp.noData THEN FALSE
    ELSE TRUE

\* Data presence derived from a probe response: total_transactions > 0 on
\* success; a 404/500 with the no-data phrasing is "no data"; every other
\* failure is treated permissively as "has data".
DataPresence(presp) ==
    IF presp.kind = "http" /\ presp.status \in 200..299 THEN presp.total > 0
    ELSE IF presp.kind = "http" /\ presp.status \in {404, 500} /\ presp.noData THEN FALSE
    ELSE TRUE

\* The view the probe result selects.
ProbeView(presp) == IF DataPresence(presp) THEN "Dashboard" ELSE "Upload"

\* View Selector: Loading while the session resolves (or the probe is
\* outstanding), Login without a user, else the selected view.
ViewSelector(loading, usr, sel) ==
    IF loading THEN "Loading"
    ELSE IF usr = Null THEN "Login"
    ELSE IF sel = Null THEN "Loading"
    ELSE sel

Render(loading, tok, usr, sel) ==
    [app |-> AppContent(loading, tok, usr),
     route |-> ProtectedRoute(loading, usr),
     view |-> ViewSelector(loading, usr, sel)]

\* -------------------------------------------------------------- UploadForm

Files == {"F1", "F2"}                  \* File objects the user can pick
FileTypes == {"stripe"}                \* values of the fileTypes options
ProjectIds == {"", "P1"}               \* text of the project id input
Props == [onUploadSuccess : BOOLEAN, onUploadError : BOOLEAN]

\* Message texts of the form.
SelectFileText == "Please select a file."
SelectTypeText == "Please select a file type."
AuthErrorText == "Authentication error. Please log in again."
DefaultSuccessText == "File uploaded successfully!"
GenericErrorText == "An unexpected error occurred during upload."
\* err.message of the SyntaxError response.json() rejects with, and of the
\* TypeError a failed fetch rejects with: texts of the JavaScript engine.
JsonSyntaxErrorText == "Unexpected token < in JSON at position 0"
FetchFailedText == "Failed to fetch"

\* response.statusText
StatusText(status) ==
    CASE status = 200 -> "OK"
      [] status = 201 -> "Created"
      [] status = 401 -> "Unauthorized"
      [] status = 404 -> "Not Found"
      [] status = 500 -> "Internal Server Error"
      [] OTHER -> ""

\* `Upload failed: ${response.statusText}`
UploadFailedText(status) ==
    CASE status = 200 -> "Upload failed: OK"
      [] status = 201 -> "Upload failed: Created"
      [] status = 401 -> "Upload failed: Unauthorized"
      [] status = 404 -> "Upload failed: Not Found"
      [] status = 500 -> "Upload failed: Internal Server Error"
      [] OTHER -> "Upload failed: "

\* Bodies of an upload response: JSON objects with or without message and
\* detail, or a body that is not JSON.
UploadBodies ==
    [parses : {TRUE}, message : {Null, "ok"}, detail : {Null, "Invalid CSV header"}]
    \cup {[parses |-> FALSE, message |-> Null, detail |-> Null]}

UploadStatuses == {200, 401, 500}

UploadResponses ==
    [kind : {"http"}, status : UploadStatuses, body : UploadBodies]
    \cup {[kind |-> "neterr", status |-> 0, body |-> [parses |-> FALSE, message |-> Null, detail |-> Null]]}

\* What handleSubmit reads and writes, and what one run of it did: requests
\* sent and callbacks called by the run.
Fm == [form |-> form, uploads |-> uploads, upCount |-> upCount,
       sent |-> 0, successCalls |-> 0, errorCalls |-> 0]

\* message state: null, or { type, text }
NoMessage == [type |-> "none", text |-> ""]
ErrorMessage(text) == [type |-> "error", text |-> text]
SuccessMessage(text) == [type |-> "success", text |-> text]

\* No response: the operation was not the handling of one.
NoResp == [kind |-> "none", status |-> 0, body |-> [parses |-> FALSE, message |-> Null, detail |-> Null]]

\* useState initial values of UploadForm.
FormMounted(p) ==
    /\ form = [selectedFile |-> Null, fileType |-> "", projectId |-> "",
               isLoading |-> FALSE, message |-> NoMessage]
    /\ props = p
    /\ uploads = {}
    /\ upCount = 0
    /\ formLast = [op |-> "mount", before |-> form, sent |-> 0, successCalls |-> 0,
                   errorCalls |-> 0, tok |-> Null, resp |-> NoResp]

\* Mutant: the client-side validation is missing.
handleSubmit_noValidation(m, tok, p) ==
    [m EXCEPT !.form.message = NoMessage,
              !.form.isLoading = TRUE,
              !.uploads = @ \cup {[id |-> m.upCount, bearer |-> tok,
                                   file |-> m.form.selectedFile,
                                   file_type |-> m.form.fileType,
                                   project_id |-> m.form.projectId]},
              !.upCount = @ + 1,
              !.sent = @ + 1]

\* handleSubmit, up to and including the fetch call.
handleSubmit(m, tok, p) ==
    LET cleared == [m EXCEPT !.form.message = NoMessage] IN
    IF cleared.form.selectedFile = Null \/ cleared.form.fileType = "" \/ tok = Null
    THEN LET errorText == IF cleared.form.selectedFile = Null THEN SelectFileText
                          ELSE IF cleared.form.fileType = "" THEN SelectTypeText
                          ELSE AuthErrorText
         IN [cleared EXCEPT !.form.message = ErrorMessage(errorText),
                            !.errorCalls = IF p.onUploadError THEN @ + 1 ELSE @]
    ELSE [cleared EXCEPT !.form.isLoading = TRUE,
                         !.uploads = @ \cup {[id |-> m.upCount, bearer |-> tok,
                                              file |-> m.form.selectedFile,
                                              file_type |-> m.form.fileType,
                                              project_id |-> m.form.projectId]},
                         !.upCount = @ + 1,
                         !.sent = @ + 1]

\* Mutant: the catch block also resets the form fields.
submitCatch_clearsFields(m, errMessage, p) ==
    [m EXCEPT !.form.message = ErrorMessage(errMessage),
              !.form.selectedFile = Null,
              !.form.fileType = "",
              !.form.projectId = "",
              !.errorCalls = IF p.onUploadError THEN @ + 1 ELSE @]

\* catch block of handleSubmit: err is always an Error here, so its message
\* is shown.
submitCatch(m, errMessage, p) ==
    [m EXCEPT !.form.message = ErrorMessage(errMessage),
              !.errorCalls = IF p.onUploadError THEN @ + 1 ELSE @]

\* Mutant: the response's message is ignored.
submitSuccess_alwaysDefault(m, result, p) ==
    [m EXCEPT !.form.message = SuccessMessage(DefaultSuccessText),
              !.form.selectedFile = Null,
              !.form.fileType = "",
              !.form.projectId = "",
              !.successCalls = IF p.onUploadSuccess THEN @ + 1 ELSE @]

\* Mutant: onUploadSuccess is not called.
submitSuccess_noCallback(m, result, p) ==
    [m EXCEPT !.form.message =
                  SuccessMessage(IF result.message # Null THEN result.message ELSE DefaultSuccessText),
              !.form.selectedFile = Null,
              !.form.fileType = "",
              !.form.projectId = ""]

\* Success handling of handleSubmit.
submitSuccess(m, result, p) ==
    [m EXCEPT !.form.message =
                  SuccessMessage(IF result.message # Null THEN result.message ELSE DefaultSuccessText),
              !.form.selectedFile = Null,
              !.form.fileType = "",
              !.form.projectId = "",
              !.successCalls = IF p.onUploadSuccess THEN @ + 1 ELSE @]

\* Mutant: the finally block is missing from handleSubmit.
submitFinally_missing(m) == m

\* finally block of handleSubmit.
submitFinally(m) == [m EXCEPT !.form.isLoading = FALSE]

\* handleSubmit from the point where the awaited fetch settles.
submitResume(m, resp, p) ==
    submitFinally(
        IF resp.kind = "neterr" THEN submitCatch(m, FetchFailedText, p)
        ELSE IF ~resp.body.parses THEN submitCatch(m, JsonSyntaxErrorText, p)
        ELSE IF ~ResponseOk(resp)
             THEN submitCatch(m, IF resp.body.detail # Null THEN resp.body.detail
                                 ELSE UploadFailedText(resp.status), p)
        ELSE submitSuccess(m, resp.body, p))

\* Mutant: the button is not disabled while a request is pending.
SubmitDisabled_ignoresLoading(f) == f.selectedFile = Null \/ f.fileType = ""

\* disabled={isLoading || !selectedFile || !fileType} of the submit button.
SubmitDisabled(f) == f.isLoading \/ f.selectedFile = Null \/ f.fileType = ""

\* Mutant: a 401 handled by the form ends the session.
CommitForm_clearsSessionOn401(op, m, tok, resp) ==
    /\ form' = m.form
    /\ uploads' = m.uploads
    /\ upCount' = m.upCount
    /\ formLast' = [op |-> op, before |-> form, sent |-> m.sent, successCalls |-> m.successCalls,
                    errorCalls |-> m.errorCalls, tok |-> tok, resp |-> resp]
    /\ IF resp.status = 401
       THEN /\ storage' = Null /\ token' = Null /\ user' = Null
            /\ UNCHANGED <<isLoading, pc, inflight, nextId, loads, probe, selected, rendered,
                           last, loggedOut>>
       ELSE UNCHANGED authVars
    /\ UNCHANGED <<props, dashVars, topVars, loginVars>>

CommitForm(op, m, tok, resp) ==
    /\ form' = m.form
    /\ uploads' = m.uploads
    /\ upCount' = m.upCount
    /\ formLast' = [op |-> op, before |-> form, sent |-> m.sent, successCalls |-> m.successCalls,
                    errorCalls |-> m.errorCalls, tok |-> tok, resp |-> resp]
    /\ UNCHANGED <<props, authVars, dashVars, topVars, loginVars>>

\* The file input changes (the input is disabled while isLoading).
handleFileChange(file) ==
    /\ ~form.isLoading
    /\ CommitForm("fileChange",
                  [Fm EXCEPT !.form.message = NoMessage, !.form.selectedFile = file], token, NoResp)

\* The file type select changes.
handleFileTypeChange(value) ==
    /\ ~form.isLoading
    /\ CommitForm("fileTypeChange", [Fm EXCEPT !.form.fileType = value], token, NoResp)

\* The project id input changes.
setProjectId(value) ==
    /\ ~form.isLoading
    /\ form.projectId # value
    /\ CommitForm("setProjectId", [Fm EXCEPT !.form.projectId = value], token, NoResp)

\* The user submits the form with the submit button.
SubmitClick ==
    /\ ~SubmitDisabled(form)
    /\ upCount < MaxUploads
    /\ CommitForm("submit", handleSubmit(Fm, token, props), token, NoResp)

\* A submit event reaches the form without the button (a script or a test
\* dispatching it): onSubmit runs whatever the button's state.
SubmitEvent ==
    /\ upCount < MaxUploads
    /\ CommitForm("submit", handleSubmit(Fm, token, props), token, NoResp)

\* The fetch of an upload request settles with resp.
UploadResponse(r, resp) ==
    /\ r \in uploads
    /\ CommitForm("response", submitResume([Fm EXCEPT !.uploads = @ \ {r}], resp, props),
                  r.bearer, resp)

\* ------------------------------------- initial states of the other components

\* DashboardComponent as constructed: both loading flags are true.
NoDashResp == [kind |-> "none", status |-> 0, body |-> ""]

DashConstructed ==
    /\ dash = [summary |-> Null, loadingSummary |-> TRUE, loadingTrend |-> TRUE, error |-> Null]
    /\ dashPc = "init"
    /\ dashReqs = {}
    /\ dashTimers = 0
    /\ dashCount = 0
    /\ dashLast = [op |-> "init", resp |-> NoDashResp]

\* No top item: getTopItem's null.
NoItem == [found |-> FALSE, name |-> "", amount |-> [nan |-> FALSE, cents |-> 0]]

\* A summary that has not arrived: its mappings are undefined.
Undefined == [defined |-> FALSE, entries |-> <<>>]

NoMapping ==
    /\ mapping = Undefined
    /\ topResult = [derived |-> "none", item |-> NoItem]

\* The Login component as mounted.
NoLoginResp == [kind |-> "none", status |-> 0,
                body |-> [parses |-> FALSE, detail |-> Null, access_token |-> Null, user |-> Null]]

LoginMounted ==
    /\ loginForm = [error |-> "", isLoading |-> FALSE]
    /\ loginReqs = {}
    /\ loginCount = 0
    /\ loginLast = [op |-> "mount", resp |-> NoLoginResp, loginCalls |-> 0,
                    before |-> [token |-> Null, user |-> Null, storage |-> Null]]

\* An UploadForm rendered for a resolved session with a user.
UploadInit ==
    /\ token \in Tokens \cup {Null}
    /\ storage = token
    /\ user = "U1"
    /\ isLoading = FALSE
    /\ pc = "mounted"
    /\ inflight = {}
    /\ nextId = 0
    /\ loads = 0
    /\ probe = "done"
    /\ selected = "Upload"
    /\ rendered = Render(FALSE, token, user, selected)
    /\ last = NoOp("init")
    /\ loggedOut = FALSE
    /\ \E p \in Props : FormMounted(p)
    /\ DashConstructed
    /\ NoMapping
    /\ LoginMounted

UploadNext ==
    \/ \E f \in Files \cup {Null} : handleFileChange(f)
    \/ \E v \in FileTypes : handleFileTypeChange(v)
    \/ \E v \in ProjectIds : setProjectId(v)
    \/ SubmitClick
    \/ \E r \in uploads, resp \in UploadResponses : UploadResponse(r, resp)

\* The form driven through its controls.
UploadSpec == UploadInit /\ [][UploadNext]_vars

UploadEventNext ==
    \/ UploadNext
    \/ SubmitEvent

\* The form driven through its controls and by direct submit events.
UploadEventSpec == UploadInit /\ [][UploadEventNext]_vars

\* ---------------------------------------------------------------- actions

\* Without a user the probe result of the old session is dropped.
ResetSelector(usr) ==
    /\ probe' = IF usr = Null THEN "idle" ELSE probe
    /\ selected' = IF usr = Null THEN Null ELSE selected

\* The state committed by a handler of AuthProvider, and the re-render of the
\* consumers of the context value.
Commit(s) ==
    /\ storage' = s.storage
    /\ token' = s.token
    /\ user' = s.user
    /\ isLoading' = s.isLoading
    /\ inflight' = s.inflight
    /\ nextId' = s.nextId
    /\ ResetSelector(s.user)
    /\ rendered' = Render(s.isLoading, s.token, s.user, selected')
    /\ UNCHANGED <<formVars, dashVars, topVars>>

AuthUnchanged ==
    UNCHANGED <<storage, token, user, isLoading, inflight, nextId, pc, loads, loggedOut, formVars, dashVars, topVars, loginVars>>

\* AuthProvider is constructed: token is read from localStorage.
Init ==
    /\ storage \in Tokens \cup {Null}
    /\ token = storage
    /\ user = Null
    /\ isLoading = TRUE
    /\ pc = "init"
    /\ inflight = {}
    /\ nextId = 0
    /\ loads = 0
    /\ probe = "idle"
    /\ selected = Null
    /\ rendered = Render(TRUE, storage, Null, Null)
    /\ last = NoOp("init")
    /\ loggedOut = FALSE
    /\ FormMounted([onUploadSuccess |-> TRUE, onUploadError |-> TRUE])
    /\ DashConstructed
    /\ NoMapping
    /\ LoginMounted

\* The effect of the first render.
Mount ==
    /\ pc = "init"
    /\ pc' = "mounted"
    /\ Commit(verifyTokenAndGetUser(St, token, "mount"))
    /\ last' = [NoOp("mount") EXCEPT !.tok = token]
    /\ UNCHANGED <<loads, loggedOut, loginVars>>

\* Login.handleLogin calls login(data.user, data.access_token) on a
\* successful token response; the Login component is what AppContent shows.
Login(userData, authToken) ==
    /\ pc = "mounted"
    /\ AppContent(isLoading, token, user) = "Login"
    /\ nextId < MaxRequests
    /\ Commit(tokenEffect(token, login(St, userData, authToken)))
    /\ last' = [NoOp("login") EXCEPT !.tok = authToken, !.usr = userData]
    /\ loggedOut' = FALSE
    /\ UNCHANGED <<pc, loads, loginVars>>

\* The Log Out button of the Dashboard.
Logout ==
    /\ pc = "mounted"
    /\ AppContent(isLoading, token, user) = "Dashboard"
    /\ Commit(tokenEffect(token, logout(St)))
    /\ last' = NoOp("logout")
    /\ loggedOut' = TRUE
    /\ UNCHANGED <<pc, loads, loginVars>>

\* The fetch of a verification request settles with resp.
VerifyResponse(r, resp) ==
    /\ pc = "mounted"
    /\ r \in inflight
    /\ Commit(tokenEffect(token, verifyResume([St EXCEPT !.inflight = @ \ {r}], resp)))
    /\ last' = [NoOp("verify") EXCEPT !.tok = r.bearer, !.status = resp.status,
                                      !.body = resp.body, !.origin = r.origin,
                                      !.before = [storage |-> storage, token |-> token,
                                                  user |-> user]]
    /\ UNCHANGED <<pc, loads, loggedOut, loginVars>>

\* The page is loaded afresh: a new AuthProvider, the old page's pending
\* requests are gone.
Reload ==
    /\ loads < MaxLoads
    /\ loads' = loads + 1
    /\ pc' = "init"
    /\ token' = storage
    /\ user' = Null
    /\ isLoading' = TRUE
    /\ inflight' = {}
    /\ nextId' = 0
    /\ probe' = "idle"
    /\ selected' = Null
    /\ rendered' = Render(TRUE, storage, Null, Null)
    /\ last' = NoOp("reload")
    /\ UNCHANGED <<storage, loggedOut, formVars, dashVars, topVars, loginVars>>

\* The session is resolved with a user: the data-presence probe is sent.
ProbeStart ==
    /\ pc = "mounted"
    /\ ~isLoading /\ user # Null
    /\ probe = "idle"
    /\ probe' = "pending"
    /\ last' = NoOp("probeStart")
    /\ UNCHANGED <<selected, rendered>>
    /\ AuthUnchanged

\* The probe is answered: the view is selected from the data presence.
ProbeResponse(presp) ==
    /\ pc = "mounted"
    /\ probe = "pending"
    /\ probe' = "done"
    /\ selected' = ProbeView(presp)
    /\ rendered' = Render(isLoading, token, user, selected')
    /\ last' = [NoOp("probe") EXCEPT !.status = presp.status, !.total = presp.total,
                                     !.noData = presp.noData, !.body = presp.kind]
    /\ AuthUnchanged

\* Manual navigation between Upload and Dashboard; the probe is not re-run.
navigateToUpload ==
    /\ rendered.view = "Dashboard"
    /\ selected' = "Upload"
    /\ rendered' = Render(isLoading, token, user, selected')
    /\ last' = NoOp("navigateToUpload")
    /\ UNCHANGED probe
    /\ AuthUnchanged

navigateToDashboard ==
    /\ rendered.view = "Upload"
    /\ selected' = "Dashboard"
    /\ rendered' = Render(isLoading, token, user, selected')
    /\ last' = NoOp("navigateToDashboard")
    /\ UNCHANGED probe
    /\ AuthUnchanged

Next ==
    \/ Mount
    \/ \E u \in Users, t \in Tokens : Login(u, t)
    \/ Logout
    \/ \E r \in inflight, resp \in Responses : VerifyResponse(r, resp)
    \/ Reload
    \/ ProbeStart
    \/ \E presp \in ProbeResponses : ProbeResponse(presp)
    \/ navigateToUpload
    \/ navigateToDashboard

Spec == Init /\ [][Next]_vars

\* Every issued verification request is eventually answered (or fails), and
\* React runs the mount effect.
FairSpec ==
    /\ Spec
    /\ WF_vars(Mount)
    /\ \A i \in 0..MaxRequests : WF_vars(\E r \in inflight, resp \in Responses : r.id = i /\ VerifyResponse(r, resp))

TypeOK ==
    /\ storage \in Tokens \cup {Null}
    /\ token \in Tokens \cup {Null}
    /\ user \in Users \cup {Null}
    /\ isLoading \in BOOLEAN
    /\ pc \in {"init", "mounted"}
    /\ nextId \in 0..MaxRequests
    /\ loads \in 0..MaxLoads
    /\ probe \in {"idle", "pending", "done"}
    /\ selected \in {Null, "Upload", "Dashboard"}
    /\ rendered = Render(isLoading, token, user, selected)

\* -------------------------------------------------------------- Dashboard

MaxFetches == 2

NoTokenText == "Authentication token not available."

\* Bodies of a summary response, as text.
NoTxBody == "No transactions found for the requested period"
NoTxUpperBody == "NO TRANSACTION DATA"
ServerErrorBody == "Internal Server Error"
NotFoundBody == "Not Found"
SummaryJson == "{\"total_transactions\": 3}"
IncompleteJson == "{}"

DashBodies == {NoTxBody, NoTxUpperBody, ServerErrorBody, NotFoundBody, SummaryJson, IncompleteJson}

DashStatuses == {200, 401, 404, 500}

DashResponses ==
    [kind : {"http"}, status : DashStatuses, body : DashBodies]
        \cup {[kind |-> "neterr", status |-> 0, body |-> ""]}

\* errorBody.toLowerCase()
ToLowerCase(text) ==
    CASE text = NoTxBody -> "no transactions found for the requested period"
      [] text = NoTxUpperBody -> "no transaction data"
      [] text = ServerErrorBody -> "internal server error"
      [] text = NotFoundBody -> "not found"
      [] OTHER -> text

\* lower.includes("no transaction")
IncludesNoTransaction(lower) ==
    lower \in {"no transactions found for the requested period", "no transaction data"}

\* response.json() succeeds
JsonParses(text) == text \in {SummaryJson, IncompleteJson}

\* typeof data.total_transactions === 'number'
HasNumericTotal(text) == text = SummaryJson

\* String(response.status)
StatusCode(status) ==
    CASE status = 200 -> "200"
      [] status = 401 -> "401"
      [] status = 404 -> "404"
      [] status = 500 -> "500"
      [] OTHER -> "0"

\* `Failed to fetch summary: ${response.status} ${response.statusText}. ${errorBody}`
FailedSummaryText(status, body) ==
    "Failed to fetch summary: " \o StatusCode(status) \o " " \o StatusText(status)
        \o ". " \o body

\* The part of the state the handlers of the Dashboard read and write.
Dm == [dash |-> dash, reqs |-> dashReqs, timers |-> dashTimers, count |-> dashCount]

\* fetchCurrentMonthSummary, to the point where it awaits fetch.
fetchCurrentMonthSummary(d, tok) ==
    IF tok = Null
    THEN [d EXCEPT !.dash.error = NoTokenText, !.dash.loadingSummary = FALSE]
    ELSE [d EXCEPT !.dash.loadingSummary = TRUE, !.dash.error = Null,
                   !.reqs = @ \cup {[id |-> d.count, bearer |-> tok]},
                   !.count = @ + 1]

\* fetchMonthlyRevenueTrend, to the point where it awaits its timer.
fetchMonthlyRevenueTrend(d, tok) ==
    IF tok = Null THEN d
    ELSE [d EXCEPT !.dash.loadingTrend = TRUE, !.timers = @ + 1]

\* fetchMonthlyRevenueTrend after the timer.
trendResume(d) == [d EXCEPT !.dash.loadingTrend = FALSE, !.timers = @ - 1]

\* catch of fetchCurrentMonthSummary
summaryCatch(d, errMessage) ==
    [d EXCEPT !.dash.error = errMessage, !.dash.summary = Null]

\* finally of fetchCurrentMonthSummary
summaryFinally(d) == [d EXCEPT !.dash.loadingSummary = FALSE]

\* Mutant: only a 404 counts as an empty period.
IsEmptyPeriod_only404(status, errorBody) == status = 404

\* Mutant: the body decides for 404 as well.
IsEmptyPeriod_bodyDecides(status, errorBody) ==
    status \in {404, 500} /\ IncludesNoTransaction(ToLowerCase(errorBody))

\* The non-2xx responses that mean "no data for the period".
IsEmptyPeriod(status, errorBody) ==
    status = 404 \/ (status = 500 /\ IncludesNoTransaction(ToLowerCase(errorBody)))

\* fetchCurrentMonthSummary after await fetch.
summaryResume(d, resp) ==
    summaryFinally(
        IF resp.kind = "neterr" THEN summaryCatch(d, FetchFailedText)
        ELSE IF ~ResponseOk(resp)
             THEN IF IsEmptyPeriod(resp.status, resp.body)
                  THEN [d EXCEPT !.dash.summary = Null]
                  ELSE summaryCatch(d, FailedSummaryText(resp.status, resp.body))
        ELSE IF ~JsonParses(resp.body) THEN summaryCatch(d, JsonSyntaxErrorText)
        ELSE IF HasNumericTotal(resp.body) THEN [d EXCEPT !.dash.summary = resp.body]
        ELSE [d EXCEPT !.dash.summary = Null])

\* The trend effect: fetchMonthlyRevenueTrend is a new callback whenever
\* currentMonthSummary is a new value (every parsed summary is a new object).
trendEffect(prevSummary, d, tok) ==
    IF prevSummary = Null /\ d.dash.summary = Null THEN d
    ELSE fetchMonthlyRevenueTrend(d, tok)

\* Mutant: the summary's loading flag is left out of isLoading.
DashIsLoading_trendOnly(d) == d.loadingTrend

\* isLoading of the Dashboard
DashIsLoading(d) == d.loadingSummary \/ d.loadingTrend

\* What the Dashboard's main area renders.
DashRender(d) ==
    [spinner |-> DashIsLoading(d),
     errorBanner |-> d.error # Null /\ ~DashIsLoading(d),
     emptyState |-> ~DashIsLoading(d) /\ d.summary = Null /\ d.error = Null]

DashCommit(d) ==
    /\ dash' = d.dash
    /\ dashReqs' = d.reqs
    /\ dashTimers' = d.timers
    /\ dashCount' = d.count
    /\ UNCHANGED <<authVars, formVars, topVars, loginVars>>

\* The effects of the first render: the summary, then (with a token) the trend.
DashMount ==
    /\ dashPc = "init"
    /\ dashPc' = "mounted"
    /\ DashCommit(fetchMonthlyRevenueTrend(fetchCurrentMonthSummary(Dm, token), token))
    /\ dashLast' = [op |-> "request", resp |-> NoDashResp]

\* The Refresh button (disabled while isLoading).
DashRefresh ==
    /\ dashPc = "mounted"
    /\ ~DashIsLoading(dash)
    /\ dashCount < MaxFetches
    /\ DashCommit(fetchMonthlyRevenueTrend(fetchCurrentMonthSummary(Dm, token), token))
    /\ dashLast' = [op |-> "request", resp |-> NoDashResp]
    /\ UNCHANGED dashPc

\* The fetch of a summary request settles with resp.
DashSummaryResponse(r, resp) ==
    /\ r \in dashReqs
    /\ DashCommit(trendEffect(dash.summary,
                              summaryResume([Dm EXCEPT !.reqs = @ \ {r}], resp), token))
    /\ dashLast' = [op |-> "response", resp |-> resp]
    /\ UNCHANGED dashPc

\* The timer of the mocked trend fetch fires.
DashTrendTimer ==
    /\ dashTimers > 0
    /\ DashCommit(trendResume(Dm))
    /\ UNCHANGED <<dashPc, dashLast>>

\* A Dashboard rendered for a session with a user.
DashInit ==
    /\ token \in Tokens \cup {Null}
    /\ storage = token
    /\ user = "U1"
    /\ isLoading = FALSE
    /\ pc = "mounted"
    /\ inflight = {}
    /\ nextId = 0
    /\ loads = 0
    /\ probe = "done"
    /\ selected = "Dashboard"
    /\ rendered = Render(FALSE, token, user, selected)
    /\ last = NoOp("init")
    /\ loggedOut = FALSE
    /\ FormMounted([onUploadSuccess |-> TRUE, onUploadError |-> TRUE])
    /\ DashConstructed
    /\ NoMapping
    /\ LoginMounted

DashNext ==
    \/ DashMount
    \/ DashRefresh
    \/ \E r \in dashReqs, resp \in DashResponses : DashSummaryResponse(r, resp)
    \/ DashTrendTimer

DashSpec == DashInit /\ [][DashNext]_vars

\* ------------------------------------------------------------- getTopItem

MaxEntries == 2

Keys == {"A", "B", "C"}

\* Amounts as the API sends them: decimal strings, and one that is no number.
AmountStrs == {"-500.00", "-100.00", "100", "100.00", "abc"}

\* A number: an amount in cents, or NaN.
NaN == [nan |-> TRUE, cents |-> 0]

Num(c) == [nan |-> FALSE, cents |-> c]

\* parseFloat(valueStr)
parseFloat(valueStr) ==
    CASE valueStr = "-500.00" -> Num(-50000)
      [] valueStr = "-100.00" -> Num(-10000)
      [] valueStr = "100" -> Num(10000)
      [] valueStr = "100.00" -> Num(10000)
      [] OTHER -> NaN

\* Math.abs(amount)
Abs(amount) == IF amount.nan THEN NaN ELSE Num(IF amount.cents < 0 THEN -amount.cents ELSE amount.cents)

\* a > b on numbers: false when either is NaN
Greater(a, b) == ~a.nan /\ ~b.nan /\ a.cents > b.cents

\* Object.entries(data) of a mapping with at most n keys: the keys are
\* distinct, in the order of the response.
EntriesUpTo(n) ==
    UNION {{e \in [1..k -> [key : Keys, value : AmountStrs]] :
                \A i, j \in 1..k : i # j => e[i].key # e[j].key} : k \in 0..n}

Mappings == {Undefined} \cup {[defined |-> TRUE, entries |-> e] : e \in EntriesUpTo(MaxEntries)}

\* Mutant: the absolute value is taken whatever the flag says.
topItemFrom_alwaysAbs(entries, i, takeAbsoluteValue, topItem) ==
    LET amount == Abs(parseFloat(entries[i].value))
    IN  IF ~topItem.found \/ Greater(amount, topItem.amount)
        THEN [found |-> TRUE, name |-> entries[i].key, amount |-> amount]
        ELSE topItem

\* Mutant: an equal amount replaces the current top.
topItemFrom_replacesOnTie(entries, i, takeAbsoluteValue, topItem) ==
    LET parsed == parseFloat(entries[i].value)
        amount == IF takeAbsoluteValue THEN Abs(parsed) ELSE parsed
    IN  IF ~topItem.found \/ Greater(amount, topItem.amount) \/ amount = topItem.amount
        THEN [found |-> TRUE, name |-> entries[i].key, amount |-> amount]
        ELSE topItem

\* The body of getTopItem's loop for entry i.
topItemFrom(entries, i, takeAbsoluteValue, topItem) ==
    LET parsed == parseFloat(entries[i].value)
        amount == IF takeAbsoluteValue THEN Abs(parsed) ELSE parsed
    IN  IF ~topItem.found \/ Greater(amount, topItem.amount)
        THEN [found |-> TRUE, name |-> entries[i].key, amount |-> amount]
        ELSE topItem

RECURSIVE scanEntries(_, _, _, _)
\* getTopItem's loop from entry i on.
scanEntries(entries, i, takeAbsoluteValue, topItem) ==
    IF i > Len(entries) THEN topItem
    ELSE scanEntries(entries, i + 1, takeAbsoluteValue,
                     topItemFrom(entries, i, takeAbsoluteValue, topItem))

getTopItem(data, takeAbsoluteValue) ==
    IF ~data.defined \/ Len(data.entries) = 0 THEN NoItem
    ELSE scanEntries(data.entries, 1, takeAbsoluteValue, NoItem)

TopUnchanged == UNCHANGED <<mapping, authVars, formVars, dashVars, loginVars>>

\* topSpendingCategory = getTopItem(spending_by_category, true)
topSpendingCategory ==
    /\ topResult' = [derived |-> "category", item |-> getTopItem(mapping, TRUE)]
    /\ TopUnchanged

\* topClientByRevenue = getTopItem(revenue_by_client)
topClientByRevenue ==
    /\ topResult' = [derived |-> "client", item |-> getTopItem(mapping, FALSE)]
    /\ TopUnchanged

\* A Dashboard whose summary holds the mapping.
TopItemInit ==
    /\ token \in Tokens
    /\ storage = token
    /\ user = "U1"
    /\ isLoading = FALSE
    /\ pc = "mounted"
    /\ inflight = {}
    /\ nextId = 0
    /\ loads = 0
    /\ probe = "done"
    /\ selected = "Dashboard"
    /\ rendered = Render(FALSE, token, user, selected)
    /\ last = NoOp("init")
    /\ loggedOut = FALSE
    /\ FormMounted([onUploadSuccess |-> TRUE, onUploadError |-> TRUE])
    /\ DashConstructed
    /\ LoginMounted
    /\ mapping \in Mappings
    /\ topResult = [derived |-> "none", item |-> NoItem]

TopItemNext ==
    \/ topSpendingCategory
    \/ topClientByRevenue

TopItemSpec == TopItemInit /\ [][TopItemNext]_vars

\* ------------------------------------------------------------- Login form

MaxLogins == 2

NetworkErrorText == "Network/Fetch Error: Could not connect to the API via proxy. Check if the backend is running and the Vite proxy is configured correctly."
DefaultLoginErrorText == "Login failed. Please check your credentials and try again."
MissingDataText == "Login successful, but missing token or user data in response."
FirefoxNetworkText == "NetworkError when attempting to fetch resource."

\* `Login failed: ${response.statusText}`
LoginFailedText(status) == "Login failed: " \o StatusText(status)

\* Bodies of a token response: JSON objects with or without detail,
\* access_token and user, or a body that is not JSON.
LoginBodies ==
    [parses : {TRUE}, detail : {Null, Detail}, access_token : Tokens \cup {Null},
     user : {Null, "U1"}]
        \cup {[parses |-> FALSE, detail |-> Null, access_token |-> Null, user |-> Null]}

LoginStatuses == {200, 401}

LoginResponses ==
    [kind : {"http"}, status : LoginStatuses, body : LoginBodies]
        \cup {[kind |-> "neterr", status |-> 0, body |-> NoLoginResp.body]}

\* The part of the state handleLogin reads and writes: the form's own state
\* and, through login(), that of AuthProvider.
Lm == [form |-> loginForm, reqs |-> loginReqs, count |-> loginCount, loginCalls |-> 0,
       auth |-> St]

\* handleLogin, to the point where it awaits fetch.
handleLogin(l) ==
    [l EXCEPT !.form = [error |-> "", isLoading |-> TRUE],
              !.reqs = @ \cup {[id |-> l.count]},
              !.count = @ + 1]

\* err.message.includes('NetworkError') || err.message.toLowerCase().includes('failed to fetch')
IsNetworkMessage(message) == message \in {FetchFailedText, FirefoxNetworkText}

\* catch of handleLogin
loginCatch(l, errType, errMessage) ==
    [l EXCEPT !.form.error =
        IF errType = "TypeError" /\ IsNetworkMessage(errMessage) THEN NetworkErrorText
        ELSE IF errMessage # "" THEN errMessage
        ELSE DefaultLoginErrorText]

\* finally of handleLogin
loginFinally(l) == [l EXCEPT !.form.isLoading = FALSE]

\* Mutant: response.ok is not looked at.
loginResume_noOkCheck(l, resp) ==
    loginFinally(
        IF resp.kind = "neterr" THEN loginCatch(l, "TypeError", FetchFailedText)
        ELSE IF ~resp.body.parses THEN loginCatch(l, "SyntaxError", JsonSyntaxErrorText)
        ELSE IF resp.body.access_token # Null /\ resp.body.user # Null
             THEN [l EXCEPT !.auth = login(l.auth, resp.body.user, resp.body.access_token),
                            !.loginCalls = @ + 1]
        ELSE loginCatch(l, "Error", MissingDataText))

\* handleLogin after await fetch.
loginResume(l, resp) ==
    loginFinally(
        IF resp.kind = "neterr" THEN loginCatch(l, "TypeError", FetchFailedText)
        ELSE IF ~resp.body.parses THEN loginCatch(l, "SyntaxError", JsonSyntaxErrorText)
        ELSE IF ~ResponseOk(resp)
             THEN loginCatch(l, "Error", IF resp.body.detail # Null THEN resp.body.detail
                                         ELSE LoginFailedText(resp.status))
        ELSE IF resp.body.access_token # Null /\ resp.body.user # Null
             THEN [l EXCEPT !.auth = login(l.auth, resp.body.user, resp.body.access_token),
                            !.loginCalls = @ + 1]
        ELSE loginCatch(l, "Error", MissingDataText))

\* The login form is submitted (its button is disabled while isLoading).
LoginSubmit ==
    /\ pc = "mounted"
    /\ AppContent(isLoading, token, user) = "Login"
    /\ ~loginForm.isLoading
    /\ loginCount < MaxLogins
    /\ LET l == handleLogin(Lm)
       IN  /\ loginForm' = l.form
           /\ loginReqs' = l.reqs
           /\ loginCount' = l.count
    /\ loginLast' = [op |-> "submit", resp |-> NoLoginResp, loginCalls |-> 0,
                     before |-> [token |-> token, user |-> user, storage |-> storage]]
    /\ UNCHANGED <<authVars, formVars, dashVars, topVars>>

\* The fetch of a token request settles with resp.
LoginResponse(r, resp) ==
    /\ r \in loginReqs
    /\ nextId < MaxRequests
    /\ LET l == loginResume([Lm EXCEPT !.reqs = @ \ {r}], resp)
       IN  /\ Commit(tokenEffect(token, l.auth))
           /\ loginForm' = l.form
           /\ loginReqs' = l.reqs
           /\ loginCount' = l.count
           /\ loginLast' = [op |-> "response", resp |-> resp, loginCalls |-> l.loginCalls,
                            before |-> [token |-> token, user |-> user, storage |-> storage]]
           /\ last' = IF l.loginCalls > 0
                      THEN [NoOp("login") EXCEPT !.tok = resp.body.access_token,
                                                 !.usr = resp.body.user]
                      ELSE last
           /\ loggedOut' = (loggedOut /\ l.loginCalls = 0)
    /\ UNCHANGED <<pc, loads>>

LoginNext ==
    \/ Mount
    \/ LoginSubmit
    \/ \E r \in loginReqs, resp \in LoginResponses : LoginResponse(r, resp)
    \/ Logout
    \/ \E r \in inflight, resp \in Responses : VerifyResponse(r, resp)

\* The application with its login form: sessions start from token responses.
LoginSpec == Init /\ [][LoginNext]_vars

\* ------------------------------------------------ the views of a session

\* A session with a user, showing the Upload view or the Dashboard.
ViewsInit ==
    /\ token \in Tokens
    /\ storage = token
    /\ user = "U1"
    /\ isLoading = FALSE
    /\ pc = "mounted"
    /\ inflight = {}
    /\ nextId = 0
    /\ loads = 0
    /\ probe = "done"
    /\ selected \in {"Upload", "Dashboard"}
    /\ rendered = Render(FALSE, token, user, selected)
    /\ last = NoOp("init")
    /\ loggedOut = FALSE
    /\ \E p \in Props : FormMounted(p)
    /\ DashConstructed
    /\ NoMapping
    /\ LoginMounted

\* The handlers of the view on screen.
ViewsNext ==
    \/ selected = "Upload" /\ UploadNext
    \/ selected = "Dashboard" /\ DashNext

ViewsSpec == ViewsInit /\ [][ViewsNext]_vars

\* ------------------------------------------------------------------ claims

Cleared == token = Null /\ user = Null /\ storage = Null /\ ~isLoading

\* C1: in every reachable state, user != null implies token != null.
C1_UserImpliesToken == user # Null => token # Null

\* C2: when a verification request is answered with HTTP 401, the session
\* ends Anonymous: token, user and the stored token are cleared and
\* isLoading is false.
C2_Verify401EndsAnonymous ==
    (last.op = "verify" /\ last.status = 401) => Cleared

C2_Witness == last.op = "verify" /\ last.status = 401 /\ last.tok \in Tokens

\* C3: right after login(user, token) the session holds exactly that user
\* and token, the token is in durable storage, isLoading is false and the
\* application does not render its Loading state.
C3_LoginYieldsVerified ==
    last.op = "login" =>
        /\ token = last.tok /\ user = last.usr /\ storage = last.tok
        /\ ~isLoading /\ rendered.app # "Loading"

C3_Witness == last.op = "login" /\ token \in Tokens /\ user \in Users

\* C4: after logout() durable storage holds no token, and a following fresh
\* load starts unresolved with no token and resolves to Anonymous on mount
\* without issuing a verification request.
C4_LogoutThenFreshLoad ==
    loggedOut =>
        /\ storage = Null
        /\ last.op = "reload" => (token = Null /\ user = Null /\ isLoading /\ inflight = {})
        /\ last.op = "mount" => (token = Null /\ user = Null /\ ~isLoading
                                 /\ inflight = {} /\ nextId = 0)

C4_Witness == loggedOut /\ loads > 0 /\ last.op = "mount"

\* C5: if every verification request is eventually answered, a loading
\* session always eventually stops loading.
C5_LoadingBounded == isLoading ~> ~isLoading

C5_Witness == last.op = "verify" /\ last.origin = "mount" /\ ~isLoading

\* C6: a verification request that fails with a non-2xx status other than
\* 401, or with a network failure (status 0 here), drops the session exactly
\* as a 401 does.
C6_OtherFailureDropsSession ==
    (last.op = "verify" /\ last.status \notin 200..299 /\ last.status # 401) => Cleared

C6_Witness == last.op = "verify" /\ last.status = 500 /\ last.tok \in Tokens

\* C7: on a fresh load with a stored token T, a 2xx verification response
\* carrying a user payload leaves user = payload, token = T, T still stored
\* and isLoading false.
C7_FreshLoadVerified ==
    (last.op = "verify" /\ last.origin = "mount" /\ last.status \in 200..299 /\ last.body \in Users) =>
        /\ user = last.body /\ token = last.tok /\ storage = last.tok /\ ~isLoading

C7_Witness ==
    last.op = "verify" /\ last.origin = "mount" /\ last.status = 200 /\ user \in Users

\* C8: on mount and on every change of the token, a null token resolves the
\* session to Anonymous without a request, a non-null token issues exactly
\* one verification request bearing it; no request ever bears a null token.
C8_VerifyOnTokenChange ==
    /\ [](\A r \in inflight : r.bearer # Null)
    /\ [][((pc = "init" /\ pc' = "mounted") \/ (pc = "mounted" /\ pc' = "mounted" /\ token' # token)) =>
            IF token' = Null
            THEN inflight' \subseteq inflight /\ ~isLoading' /\ user' = Null
            ELSE \E r \in inflight' :
                    r \notin inflight /\ r.bearer = token' /\ inflight' \ inflight = {r}]_vars

C8_Witness ==
    last.op = "login" /\ \E r \in inflight : r.bearer = token /\ r.origin = "change"

\* C9: the route guard renders the placeholder while isLoading, redirects to
\* login when resolved without a user, and renders the wrapped content
\* exactly when resolved with a user, whatever the token is.
C9_RouteGuard ==
    /\ isLoading => rendered.route = "Placeholder"
    /\ (~isLoading /\ user = Null) => rendered.route = "NavigateLogin"
    /\ rendered.route = "Outlet" <=> (~isLoading /\ user # Null)

C9_Witness == rendered.route = "Outlet" /\ token = Null

SubmitRejected ==
    /\ formLast.op = "submit"
    /\ (formLast.before.selectedFile = Null \/ formLast.before.fileType = "" \/ formLast.tok = Null)

FieldsUnchanged ==
    /\ form.selectedFile = formLast.before.selectedFile
    /\ form.fileType = formLast.before.fileType
    /\ form.projectId = formLast.before.projectId

UploadSucceeded ==
    formLast.op = "response" /\ ResponseOk(formLast.resp) /\ formLast.resp.body.parses

UploadFailed ==
    formLast.op = "response" /\ ~(ResponseOk(formLast.resp) /\ formLast.resp.body.parses)

\* C11: a submit with no file, no file type or no session token sends no
\* request, sets an error message, leaves isLoading false and leaves the
\* selected file, file type and project id as they were.
C11_InvalidSubmitIsLocal ==
    SubmitRejected =>
        /\ formLast.sent = 0
        /\ form.message # NoMessage /\ form.message.type = "error"
        /\ ~form.isLoading
        /\ FieldsUnchanged

C11_Witness == SubmitRejected /\ formLast.before.selectedFile = Null /\ form.message # NoMessage

\* C12: while an upload request is pending the submit control is disabled,
\* at most one request of the form is in flight, an accepted submit sends
\* exactly one request and a response sends none (no retry).
C12_SingleUploadInFlight ==
    /\ uploads # {} => SubmitDisabled(form)
    /\ Cardinality(uploads) <= 1
    /\ (formLast.op = "submit" /\ ~SubmitRejected) => formLast.sent = 1
    /\ formLast.op = "response" => formLast.sent = 0

C12_Witness == formLast.op = "submit" /\ Cardinality(uploads) = 1 /\ upCount = 2

\* C13: for a 2xx upload response the message has type success and its text
\* is the response's message when present, else the fixed default text.
C13_SuccessMessage ==
    UploadSucceeded =>
        /\ form.message # NoMessage /\ form.message.type = "success"
        /\ form.message.text = IF formLast.resp.body.message # Null
                               THEN formLast.resp.body.message
                               ELSE DefaultSuccessText

C13_Witness ==
    UploadSucceeded /\ formLast.resp.body.message = "ok" /\ form.message.text = "ok"

\* C14: when an upload fails, the error text is the server's detail when the
\* response carries one, and the fixed generic fallback text when the body
\* cannot be parsed.
C14_FailureMessage ==
    UploadFailed =>
        /\ form.message # NoMessage /\ form.message.type = "error"
        /\ (formLast.resp.kind = "http" /\ formLast.resp.body.parses /\ formLast.resp.body.detail # Null)
              => form.message.text = formLast.resp.body.detail
        /\ (formLast.resp.kind = "http" /\ ~formLast.resp.body.parses)
              => form.message.text = GenericErrorText

\* C15: a failed upload leaves the selected file, the file type and the
\* project id unchanged and isLoading false, so the same submit is possible.
C15_FailureKeepsForm ==
    UploadFailed => (FieldsUnchanged /\ ~form.isLoading /\ ~SubmitDisabled(form))

C15_Witness == UploadFailed /\ form.selectedFile \in Files /\ form.projectId = "P1"

\* C16: a successful upload clears file, file type and project id and calls
\* the success callback (when the parent passed one) exactly once; no other
\* operation calls it.
C16_SuccessClearsAndCallsBack ==
    /\ UploadSucceeded =>
          /\ form.selectedFile = Null /\ form.fileType = "" /\ form.projectId = ""
          /\ formLast.successCalls = IF props.onUploadSuccess THEN 1 ELSE 0
    /\ ~UploadSucceeded => formLast.successCalls = 0

C16_Witness ==
    UploadSucceeded /\ props.onUploadSuccess /\ formLast.successCalls = 1
                    /\ formLast.before.selectedFile \in Files

\* C17: a summary response of status 500 whose body contains "no transactions
\* found" leaves the Dashboard with summary = null and error = null; until the
\* next request it never shows the error banner, and it shows the empty state
\* as soon as it is no longer loading.
C17_NoTransactions500IsEmpty ==
    (dashLast.op = "response" /\ dashLast.resp.kind = "http" /\ dashLast.resp.status = 500
        /\ IncludesNoTransaction(ToLowerCase(dashLast.resp.body)))
    => /\ dash.summary = Null
       /\ dash.error = Null
       /\ ~DashRender(dash).errorBanner
       /\ (~DashIsLoading(dash) => DashRender(dash).emptyState)

C17_Witness ==
    /\ dashLast.op = "response" /\ dashLast.resp.status = 500 /\ dashLast.resp.body = NoTxBody
    /\ dashCount = 2
    /\ DashRender(dash).emptyState

\* The last summary operation was a non-2xx response.
NonOkSummaryResponse ==
    dashLast.op = "response" /\ dashLast.resp.kind = "http" /\ ~ResponseOk(dashLast.resp)

Parsed(i) == parseFloat(mapping.entries[i].value)

Indices == 1..Len(mapping.entries)

AllNumeric == \A i \in Indices : ~Parsed(i).nan

EmptyOrMissing == ~mapping.defined \/ Len(mapping.entries) = 0

\* The magnitude of the amount of entry i, in cents.
Magnitude(i) == IF Parsed(i).cents < 0 THEN -Parsed(i).cents ELSE Parsed(i).cents

\* topResult is entry i of the mapping.
TopIsEntry(i) == topResult.item.found /\ topResult.item.name = mapping.entries[i].key

\* C19 as stated: the derived top spending category and the derived top client
\* are each an entry of maximum magnitude of the mapping (amounts that are
\* numbers); for an empty or missing mapping there is no top item.
C19_TopIsMaxMagnitude ==
    topResult.derived # "none"
    => /\ EmptyOrMissing => topResult.item = NoItem
       /\ (~EmptyOrMissing /\ AllNumeric)
          => \E i \in Indices : /\ TopIsEntry(i)
                                /\ \A j \in Indices : Magnitude(j) <= Magnitude(i)

\* Entry i has the greatest value among the entries that are numbers, and no
\* earlier entry has the same value.
FirstMax(value(_), i) ==
    /\ ~Parsed(i).nan
    /\ \A j \in Indices : ~Parsed(j).nan => value(j) <= value(i)
    /\ \A j \in 1..(i - 1) : ~Parsed(j).nan => value(j) < value(i)

Signed(i) == Parsed(i).cents

\* C19, amended: the top spending category is the first entry of maximum
\* magnitude, the top client the first entry of maximum signed amount; an
\* amount that is not a number never replaces the current top, and as first
\* entry it stays the top; an empty or missing mapping has no top item.
C19_TopCategoryAndClient ==
    topResult.derived # "none"
    => /\ EmptyOrMissing => topResult.item = NoItem
       /\ (~EmptyOrMissing /\ Parsed(1).nan) => TopIsEntry(1) /\ topResult.item.amount.nan
       /\ (~EmptyOrMissing /\ ~Parsed(1).nan /\ topResult.derived = "category")
          => \E i \in Indices : /\ TopIsEntry(i)
                                /\ FirstMax(Magnitude, i)
                                /\ topResult.item.amount = Num(Magnitude(i))
       /\ (~EmptyOrMissing /\ ~Parsed(1).nan /\ topResult.derived = "client")
          => \E i \in Indices : /\ TopIsEntry(i)
                                /\ FirstMax(Signed, i)
                                /\ topResult.item.amount = Num(Signed(i))

\* A top client that is not the entry of greatest magnitude.
C19_Witness ==
    /\ topResult.derived = "client"
    /\ AllNumeric
    /\ \E i, j \in Indices : TopIsEntry(i) /\ Magnitude(j) > Magnitude(i)

\* A token response that carries what a session needs.
GoodTokenResponse(resp) ==
    /\ ResponseOk(resp)
    /\ resp.body.parses
    /\ resp.body.access_token # Null
    /\ resp.body.user # Null

\* C20: handling a token response calls login() exactly when the response is
\* 2xx with both access_token and user, and then the session is the
\* response's; a non-2xx response with a detail shows that detail; in every
\* failing case (non-2xx, missing field, unreadable body, network error)
\* login() is not called, token, user and localStorage are as before, and the
\* form shows an error.
C20_LoginOnlyOnCompleteSuccess ==
    [][(loginCount' = loginCount /\ loginReqs' # loginReqs)
       => LET resp == loginLast'.resp
          IN  /\ (loginLast'.loginCalls = 1) <=> GoodTokenResponse(resp)
              /\ GoodTokenResponse(resp)
                 => /\ token' = resp.body.access_token
                    /\ storage' = resp.body.access_token
                    /\ user' = resp.body.user
              /\ ~GoodTokenResponse(resp)
                 => /\ loginLast'.loginCalls = 0
                    /\ UNCHANGED <<token, user, storage>>
                    /\ loginForm'.error # ""
              /\ (resp.kind = "http" /\ ~ResponseOk(resp) /\ resp.body.parses
                    /\ resp.body.detail # Null)
                 => loginForm'.error = resp.body.detail
              /\ ~loginForm'.isLoading]_vars

\* A second attempt rejected with a detail after a session had been started
\* from the form and ended.
C20_Witness ==
    /\ loginLast.op = "response"
    /\ loginLast.resp.status = 401
    /\ loginLast.resp.body.detail = Detail
    /\ loginLast.resp.body.access_token # Null
    /\ loginForm.error = Detail
    /\ loginCount = 2
    /\ loggedOut
    /\ token = Null

\* The session status the state stands for: unresolved while isLoading
\* (Unverified before the mount effect has run), else by the user.
Status(loading, p, usr) ==
    IF loading THEN (IF p = "init" THEN "Unverified" ELSE "Verifying")
    ELSE IF usr # Null THEN "Verified"
    ELSE "Anonymous"

StatusNow == Status(isLoading, pc, user)

StatusNext == Status(isLoading', pc', user')

Resolved == {"Verified", "Anonymous"}

\* C21 as stated: within a page load the status only moves Unverified ->
\* Verifying -> {Verified, Anonymous} (a mount without token resolving at
\* once), resolved -> Verifying on a token change, resolved -> Anonymous on
\* logout; a token change from a resolved state leads to Verifying.
C21_StatusTransitions ==
    [][loads' = loads
       => /\ \/ StatusNext = StatusNow
             \/ StatusNow = "Unverified" /\ StatusNext \in {"Verifying", "Anonymous"}
             \/ StatusNow = "Verifying" /\ StatusNext \in Resolved
             \/ StatusNow \in Resolved /\ StatusNext = "Verifying" /\ token' # token
             \/ StatusNow \in Resolved /\ StatusNext = "Anonymous" /\ last'.op = "logout"
          /\ (StatusNow \in Resolved /\ token' # token /\ token' # Null)
             => StatusNext = "Verifying"]_vars

\* C21, amended: within a page load the status moves Unverified -> Verifying
\* (mount with a token) or Unverified -> Anonymous (mount without one), and
\* Verifying -> {Verified, Anonymous}; a resolved status never becomes
\* Verifying or Unverified again: login leads to Verified at once, logout to
\* Anonymous, and the outcome of the re-verification that follows a token
\* change moves between Verified and Anonymous directly.
C21_ResolvedStaysResolved ==
    [][loads' = loads
       => /\ StatusNow = "Unverified"
             => \/ StatusNext = "Verifying" /\ token # Null
                \/ StatusNext = "Anonymous" /\ token = Null
                \/ StatusNext = "Unverified"
          /\ StatusNow = "Verifying" => StatusNext \in Resolved \cup {"Verifying"}
          /\ StatusNow \in Resolved => StatusNext \in Resolved
          /\ (StatusNow \in Resolved /\ token' # token /\ token' # Null)
             => StatusNext = "Verified" /\ inflight' # {}
          /\ (StatusNow \in Resolved /\ token # Null /\ token' = Null)
             => StatusNext = "Anonymous"]_vars

\* Logged in from Anonymous: Verified at once, the verification outstanding.
C21_Witness ==
    /\ last.op = "login"
    /\ StatusNow = "Verified"
    /\ \E r \in inflight : r.bearer = token /\ r.origin = "change"

\* The session (storage, token, user) a verification response leaves when it
\* is handled on session b and nothing else happens.
OutcomeAlone(b, status, body) ==
    LET resp == [kind |-> IF status = 0 THEN "neterr" ELSE "http", status |-> status, body |-> body]
        s == verifyResume([St EXCEPT !.storage = b.storage, !.token = b.token, !.user = b.user], resp)
    IN  [storage |-> s.storage, token |-> s.token, user |-> s.user]

\* C22: when two verification requests overlap and their responses are
\* handled one after the other, the session after both is the one the second
\* response alone determines from the session the two requests found.
C22_LastResponseWins ==
    [][(last.op = "verify" /\ last'.op = "verify" /\ inflight' # inflight /\ nextId' = nextId)
       => [storage |-> storage', token |-> token', user |-> user']
            = OutcomeAlone(last.before, last'.status, last'.body)]_vars

\* This step handles the response to a verification request.
VerifyStep == last'.op = "verify" /\ inflight' # inflight /\ nextId' = nextId

\* C23: the response to a verification request issued for one token never
\* removes or replaces a different token held in localStorage.
C23_StorageSafeFromStaleVerify ==
    [][(VerifyStep /\ storage # Null /\ last'.tok # storage) => storage' = storage]_vars

\* C24: in every state localStorage's token equals the session token, and the
\* two change only in login, logout and a failed verification, together.
C24_StorageEqualsToken ==
    /\ [](storage = token)
    /\ [][(token' # token \/ storage' # storage)
          => \/ last'.op = "login" /\ token' = last'.tok /\ storage' = last'.tok
             \/ last'.op = "logout" /\ token' = Null /\ storage' = Null
             \/ /\ VerifyStep
                /\ ~(last'.status \in 200..299 /\ last'.body # BadJson)
                /\ token' = Null /\ storage' = Null]_vars

\* A failed verification has cleared a token that login had stored.
C24_Witness ==
    /\ last.op = "verify"
    /\ last.status = 500
    /\ last.before.token # Null
    /\ last.before.user # Null
    /\ token = Null
    /\ storage = Null

\* C25: no handler of the upload form or of the Dashboard's summary fetch
\* changes token, user or localStorage, whatever the response, a 401 included.
C25_ViewsLeaveSession ==
    [][UNCHANGED <<token, user, storage>>]_vars

\* The view on screen has handled a 401 and the session is as it was.
C25_Witness ==
    /\ token # Null /\ storage = token /\ user # Null
    /\ \/ /\ selected = "Upload"
          /\ formLast.op = "response" /\ formLast.resp.kind = "http"
          /\ formLast.resp.status = 401
       \/ /\ selected = "Dashboard"
          /\ dashLast.op = "response" /\ dashLast.resp.kind = "http"
          /\ dashLast.resp.status = 401

\* C26: AppContent shows Loading exactly while isLoading; when resolved it
\* shows Login whenever there is no user, and the Dashboard only with both a
\* token and a user.
C26_TopLevelView ==
    /\ rendered.app = AppContent(isLoading, token, user)
    /\ (rendered.app = "Loading") <=> isLoading
    /\ (~isLoading /\ user = Null) => rendered.app = "Login"
    /\ rendered.app = "Dashboard" => (token # Null /\ user # Null)

\* Resolved, with a user but without a token: the Dashboard is withheld.
C26_Witness ==
    /\ ~isLoading
    /\ user # Null
    /\ token = Null
    /\ rendered.app = "Login"

\* The amount getTopItem compares for entry i in the derivation made.
Compared(i) == IF topResult.derived = "category" THEN Magnitude(i) ELSE Signed(i)

\* C27: when several entries share the maximum amount, the top item is the
\* first of them in the mapping's order.
C27_TieKeepsFirst ==
    (topResult.derived # "none" /\ ~EmptyOrMissing /\ AllNumeric)
    => \A i, j \in Indices :
          (/\ i < j
           /\ Compared(i) = Compared(j)
           /\ \A k \in Indices : Compared(k) <= Compared(i)
           /\ \A k \in 1..(i - 1) : Compared(k) < Compared(i))
          => TopIsEntry(i) /\ ~TopIsEntry(j)

\* Two entries written differently share the maximum; the first is the top.
C27_Witness ==
    /\ topResult.derived = "client"
    /\ mapping.defined /\ Len(mapping.entries) = 2
    /\ mapping.entries[1].value = "100.00"
    /\ mapping.entries[2].value = "100"
    /\ TopIsEntry(1)

\* C28: after logout(), token and user are null until login() is called again.
C28_LoggedOutStaysAnonymous ==
    loggedOut => (token = Null /\ user = Null)

\* The verification succeeded: its handler calls setUser.
VerifySucceeded == VerifyStep /\ last'.status \in 200..299 /\ last'.body # BadJson

\* C29: a verification response installs a user only when the token it
\* verified is the session's token: never a response for T1 under a different
\* session token T2.
C29_UserOnlyFromCurrentToken ==
    [][(VerifySucceeded /\ token # Null) => (last'.tok = token /\ user' = last'.body)]_vars

\* C30: within a page load isLoading starts true and, once false, is never
\* true again; the verification that login triggers runs with isLoading false.
C30_LoadingNeverReturns ==
    /\ isLoading = TRUE
    /\ [][loads' = loads
          => /\ ~isLoading => ~isLoading'
             /\ last'.op = "login"
                => /\ ~isLoading'
                   /\ \E r \in inflight' : r.bearer = token' /\ r \notin inflight]_vars

\* A second login of the page load: two verifications run, isLoading is false.
C30_Witness ==
    /\ last.op = "login"
    /\ ~isLoading
    /\ nextId = 2
    /\ Cardinality(inflight) = 2

\* C31: the upload form's isLoading is true exactly while an upload request
\* is in flight; after a response of any kind has been handled it is false.
C31_LoadingWhileInFlight ==
    /\ form.isLoading <=> uploads # {}
    /\ formLast.op = "response" => ~form.isLoading

\* A second upload has completed on an unparsable body; the form is enabled.
C31_Witness ==
    /\ formLast.op = "response"
    /\ formLast.resp.kind = "http" /\ ~formLast.resp.body.parses
    /\ formLast.before.isLoading
    /\ ~form.isLoading
    /\ uploads = {}
    /\ upCount = 2

\* C32: summary fetches of one mounted Dashboard never overlap: at most one
\* is outstanding, loadingSummary is true while it is, and so the Refresh
\* button is disabled.
C32_SummaryFetchesNeverOverlap ==
    /\ Cardinality(dashReqs) <= 1
    /\ dashReqs # {} => (dash.loadingSummary /\ DashIsLoading(dash))

\* A refresh's fetch is outstanding, the one before it has been answered.
C32_Witness ==
    /\ dashLast.op = "request"
    /\ dashCount = 2
    /\ Cardinality(dashReqs) = 1
    /\ \A r \in dashReqs : r.id = 1

====
